---- MODULE Spec2Model ----
(***************************************************************************)
(* ramupload: the staged transfer pipeline of src/ramupload/upload.py      *)
(* (Uploader and the log decorator) and the retention sweep of             *)
(* src/ramupload/core.py, over a filesystem of directory and file paths.   *)
(*                                                                         *)
(* A path is a sequence of components (the string split at the separator); *)
(* a trailing separator is a trailing empty component.  Every public       *)
(* method is one action: the whole call, the calls it makes included.  The *)
(* events of the most recent call (external commands, copies, moves, audit *)
(* records, returns and raises) are kept, in order, in trace.  A behaviour *)
(* follows the one session the operator selected, through any sequence of  *)
(* calls; the operations of a session touch that session's paths only.     *)
(***************************************************************************)
EXTENDS Integers, Sequences, FiniteSets, TLC

VARIABLES
    dirs,         \* the directories of the local filesystem (paths)
    files,        \* the regular files of the local filesystem (paths)
    synced,       \* the source directories the sync command has copied out
    mount_point,  \* the temporary mount point of the latest fetch
    fetched,      \* sessions for which a transfer_host_data call returned
    mtime_age,    \* age in days of each top-level entry of the archive
    selected,     \* the experiment and session the operator works on
    trace,        \* events of the most recent call, in order
    last          \* the most recent call: name, arguments, outcome

vars == <<dirs, files, synced, mount_point, fetched, mtime_age, selected, trace,
          last>>

(* ------------------------------ bounds -------------------------------- *)

\* sessions are numbered 0..MaxSession
MaxSession == 1
\* lifetimes (days) the retention sweep is called with: 1..MaxLifetime
MaxLifetime == 2

Sessions == 0..MaxSession
Experiments == {"FR1", "AmplitudeDetermination"}
ExitCodes == {0, 1}
Lifetimes == 1..MaxLifetime
Ages == 0..(MaxLifetime + 1)

(* --------------------------- configuration ---------------------------- *)

subject == "R0000X"
dataroot == <<"data">>
\* transferred['dir'] of config.ini, after expanduser
trans_dir == <<"transferred">>
\* a local directory that exists (a local "upload"), and a remote target
local_dest == <<"localdest">>
remote_dest == <<"user@ramtransfer:remote_dir">>
Dests == {local_dest, remote_dest}
\* the files of one session on the host PC
HostFiles == {"eeg.h5", "params.txt"}
\* other subjects' entries already in the archive
OtherSubjects == {"R0001A", "R0002B"}

(* ------------------------------ paths --------------------------------- *)

sep == ""

endswith_sep(p) == Len(p) > 0 /\ p[Len(p)] = sep

\* the filesystem ignores trailing separators
RECURSIVE norm(_)
norm(p) == IF endswith_sep(p) THEN norm(SubSeq(p, 1, Len(p) - 1)) ELSE p

Prefixes(p) == {SubSeq(p, 1, k) : k \in 1..Len(p)}

IsUnder(q, p) == Len(q) >= Len(p) /\ SubSeq(q, 1, Len(p)) = p

Rebase(q, p, r) == r \o SubSeq(q, Len(p) + 1, Len(q))

basename(p) == p[Len(p)]

session_name(session) == "session_" \o ToString(session)

\* Uploader.get_session_dir
get_session_dir(experiment, session) ==
    dataroot \o <<experiment, subject, session_name(session)>>

exists(w, p) == norm(p) \in (w.dirs \cup w.files)

isdir(w, p) == norm(p) \in w.dirs

\* os.makedirs: the directory and every missing parent
makedirs(w, p) == [w EXCEPT !.dirs = @ \cup Prefixes(p)]

(* ------------------------------ events -------------------------------- *)

Ev(e, op, arg, path) == [e |-> e, op |-> op, arg |-> arg, path |-> path]

NoExc == "none"

\* Python truth value of a returned value
Truthy(v) == v \notin {"False", "None", "0"}

Result(w, ret, exc, ev) == [w |-> w, ret |-> ret, exc |-> exc, ev |-> ev]

\* a call that raised partway: the world and events so far, and the exception
Raised(r) == Result(r.w, "None", r.exc, r.ev)

(* -------------------------- the log decorator ------------------------- *)

\* a wrapper without the except clause: an exception passes unrecorded
log_no_except(name, r) ==
    IF r.exc = NoExc
    THEN Result(r.w, r.ret, NoExc,
                <<Ev("call", name, "", <<>>)>> \o r.ev \o
                <<Ev("log", name,
                     IF Truthy(r.ret) THEN "successfully completed" ELSE "failed!",
                     <<>>),
                  Ev("return", name, r.ret, <<>>)>>)
    ELSE Result(r.w, "None", r.exc,
                <<Ev("call", name, "", <<>>)>> \o r.ev \o
                <<Ev("raise", name, r.exc, <<>>)>>)

\* upload.log wrapper: one audit record by the truth value of the result, or
\* one "Uncaught exception" record before the exception is raised again
log(name, r) ==
    IF r.exc = NoExc
    THEN Result(r.w, r.ret, NoExc,
                <<Ev("call", name, "", <<>>)>> \o r.ev \o
                <<Ev("log", name,
                     IF Truthy(r.ret) THEN "successfully completed" ELSE "failed!",
                     <<>>),
                  Ev("return", name, r.ret, <<>>)>>)
    ELSE Result(r.w, "None", r.exc,
                <<Ev("call", name, "", <<>>)>> \o r.ev \o
                <<Ev("log", name, "Uncaught exception", <<>>),
                  Ev("raise", name, r.exc, <<>>)>>)

\* subprocess.call in place of check_call: the exit code is returned, never raised
call_no_check(command, code, path) ==
    [ret |-> ToString(code), exc |-> NoExc,
     ev |-> <<Ev("exec", command, ToString(code), path)>>]

\* subprocess.check_call: returns 0, or raises on a non-zero exit code
check_call(command, code, path) ==
    IF code = 0
    THEN [ret |-> "0", exc |-> NoExc,
          ev |-> <<Ev("exec", command, ToString(code), path)>>]
    ELSE [ret |-> "None", exc |-> "CalledProcessError",
          ev |-> <<Ev("exec", command, ToString(code), path)>>]

(* ------------------------------- rsync -------------------------------- *)

\* the end of Uploader.rsync: the result of check_call is the result
rsync_return(w, src, c) ==
    IF c.exc # NoExc
    THEN Result(w, "None", c.exc, c.ev)
    ELSE Result([w EXCEPT !.synced = @ \cup {norm(src)}], c.ret, NoExc, c.ev)

\* the source handed on as it came
rsync_src_verbatim(src) == src

\* the source argument of the command: a trailing slash is added if necessary
rsync_src(src) == IF ~endswith_sep(src) THEN src \o <<sep>> ELSE src

\* the command template: local when dest exists, else remote
rsync_command(w, dest) ==
    IF exists(w, dest) THEN "rsync_local" ELSE "rsync_remote"

\* Uploader.rsync, undecorated
rsync_body(w, src, dest, code) ==
    IF ~exists(w, src)
    THEN Result(w, "None", "AssertionError", <<>>)
    ELSE rsync_return(w, rsync_src(src),
                      check_call(rsync_command(w, dest), code, rsync_src(src)))

rsync(w, src, dest, code) == log("rsync", rsync_body(w, src, dest, code))

(* ----------------------- imaging and clinical EEG -------------------- *)

\* the events ev, then the run r
after_events(ev, r) == Result(r.w, r.ret, r.exc, ev \o r.ev)

\* the upload without the directory check: the source goes straight to rsync
upload_imaging_unchecked(w, src, dest, code) ==
    after_events(<<Ev("isdir", "", IF isdir(w, src) THEN "True" ELSE "False", src)>>,
                 rsync(w, src, dest, code))

\* Uploader.upload_imaging, undecorated: OSError unless src is a directory,
\* else the result of rsync
upload_imaging_body(w, src, dest, code) ==
    IF ~isdir(w, src)
    THEN Result(w, "None", "OSError", <<Ev("isdir", "", "False", src)>>)
    ELSE after_events(<<Ev("isdir", "", "True", src)>>, rsync(w, src, dest, code))

upload_imaging(w, src, dest, code) ==
    log("upload_imaging", upload_imaging_body(w, src, dest, code))

\* Uploader.upload_clinical_eeg: upload_imaging under another name
upload_clinical_eeg(w, src, dest, code) ==
    log("upload_clinical_eeg", upload_imaging(w, src, dest, code))

(* ------------------------- fetch from the host ------------------------ *)

\* the copy of core.copytree once the destination directory is made: the
\* files that failed are reported by one Error after the others were copied
copy_files(w, failed, dest) ==
    Result([w EXCEPT !.files = @ \cup {dest \o <<f>> : f \in HostFiles \ failed}],
           "None",
           IF failed = {} THEN NoExc ELSE "Error",
           <<Ev("copytree", "", IF failed = {} THEN "ok" ELSE "Error", dest)>>)

\* core.copytree (shutil.copytree): the source is listed first, then the
\* destination directory is made, then each file is copied
copytree(w, src_exists, failed, dest) ==
    IF ~src_exists
    THEN Result(w, "None", "FileNotFoundError",
                <<Ev("copytree", "", "FileNotFoundError", dest)>>)
    ELSE IF exists(w, dest)
    THEN Result(w, "None", "FileExistsError",
                <<Ev("copytree", "", "FileExistsError", dest)>>)
    ELSE copy_files(makedirs(w, dest), failed, dest)

\* an unmount whose failure is raised to the caller
unmount_raising(c, u) ==
    IF u.exc # NoExc
    THEN Result(c.w, "None", u.exc, c.ev \o u.ev)
    ELSE Result([c.w EXCEPT !.mount_point.mounted = FALSE], "None", NoExc,
                c.ev \o u.ev)

\* Uploader._mount_host_pc after the with block ended without an exception:
\* umount is called, and its failure is printed, not raised
unmount_host_pc(c, u) ==
    Result(IF u.exc = NoExc THEN [c.w EXCEPT !.mount_point.mounted = FALSE]
           ELSE c.w,
           "None", NoExc, c.ev \o u.ev)

\* a mount scope that ends without calling umount
mount_scope_exit_no_umount(env, c) ==
    IF c.exc # NoExc THEN Raised(c) ELSE Result(c.w, "None", NoExc, c.ev)

\* Uploader._mount_host_pc at the end of the with block: an exception of the
\* block is no CalledProcessError, leaves through the yield and skips the
\* unmount
mount_scope_exit(env, c) ==
    IF c.exc # NoExc
    THEN Raised(c)
    ELSE unmount_host_pc(c, check_call("umount", env.umount, <<>>))

\* the with block run whatever the mount command answered
mount_scope_unchecked(w, env, dest, m) ==
    mount_scope_exit(
        env,
        [copytree([w EXCEPT !.mount_point.mounted = TRUE],
                  env.host_exists, env.failed, dest)
            EXCEPT !.ev = m.ev \o @])

\* the with block of transfer_host_data, run once the host is mounted
mount_scope(w, env, dest, m) ==
    IF m.exc # NoExc
    THEN Result(w, "None", m.exc, m.ev)
    ELSE mount_scope_exit(
             env,
             [copytree([w EXCEPT !.mount_point.mounted = TRUE],
                       env.host_exists, env.failed, dest)
                 EXCEPT !.ev = m.ev \o @])

\* Uploader._mount_host_pc around the copy
mount_host_pc(w, env, dest) ==
    mount_scope(w, env, dest, check_call("mount_smbfs", env.mount, <<>>))

\* upload.tempdir after the yield: the directory is removed only when the
\* block left no exception; os.rmdir fails on a mount point still in use
tempdir_exit(b) ==
    IF b.exc # NoExc
    THEN Raised(b)
    ELSE IF b.w.mount_point.mounted
    THEN Result(b.w, "None", NoExc, b.ev \o <<Ev("rmdir", "", "OSError", <<>>)>>)
    ELSE Result([b.w EXCEPT !.mount_point.exists = FALSE], "None", NoExc,
                b.ev \o <<Ev("rmdir", "", "ok", <<>>)>>)

\* upload.tempdir around the mount
tempdir(w, env, dest) ==
    tempdir_exit(
        [mount_host_pc([w EXCEPT !.mount_point =
                              [exists |-> TRUE, mounted |-> FALSE]],
                       env, dest)
            EXCEPT !.ev = <<Ev("mkdtemp", "", "", <<>>)>> \o @])

\* the end of transfer_host_data: True, unless the with block raised
transfer_return(t) ==
    IF t.exc # NoExc THEN Raised(t) ELSE Result(t.w, "True", NoExc, t.ev)

\* the fetch without the check of host_pc: mount and copy on every call
transfer_always(w, task_transfer_dir, env) ==
    transfer_return(tempdir(w, env, task_transfer_dir))

\* transfer_host_data from the check of host_pc on
transfer_if_absent(w, task_transfer_dir, env) ==
    IF exists(w, task_transfer_dir)
    THEN Result(w, "True", NoExc, <<>>)
    ELSE transfer_return(tempdir(w, env, task_transfer_dir))

\* Uploader.transfer_host_data, undecorated; the password it reads or asks
\* for first only fills the address of the mount command
transfer_host_data_body(w, experiment, session, env) ==
    transfer_if_absent(
        IF experiment = "AmplitudeDetermination"
        THEN makedirs(w, get_session_dir(experiment, session)) ELSE w,
        get_session_dir(experiment, session) \o <<"host_pc">>,
        env)

\* a call of transfer_host_data that returned is remembered
returned_fetch(r, experiment, session) ==
    IF r.exc = NoExc
    THEN [r EXCEPT !.w.fetched = @ \cup {<<experiment, session>>}]
    ELSE r

transfer_host_data(w, experiment, session, env) ==
    returned_fetch(log("transfer_host_data",
                       transfer_host_data_body(w, experiment, session, env)),
                   experiment, session)

(* ------------------------------ archive ------------------------------- *)

\* shutil.move once the real destination is known: an error if the name is
\* taken in dst, else the subtree is renamed, the missing parents made
move_to(w, src, dst, real_dst) ==
    IF isdir(w, dst) /\ exists(w, real_dst)
    THEN Result(w, "None", "Error", <<Ev("move", "", "Error", real_dst)>>)
    ELSE IF ~exists(w, src)
    THEN Result(w, "None", "FileNotFoundError",
                <<Ev("move", "", "FileNotFoundError", real_dst)>>)
    ELSE Result([w EXCEPT
                    !.dirs = {IF IsUnder(d, src) THEN Rebase(d, src, real_dst)
                              ELSE d : d \in @} \cup Prefixes(real_dst),
                    !.files = {IF IsUnder(f, src) THEN Rebase(f, src, real_dst)
                               ELSE f : f \in @}],
                "None", NoExc, <<Ev("move", "", "ok", real_dst)>>)

\* shutil.move: into dst when dst is a directory, else onto dst
shutil_move(w, src, dst) ==
    move_to(w, src, dst, IF isdir(w, dst) THEN dst \o <<basename(src)>> ELSE dst)

\* an entry that mirrors the layout of the data root
archive_dest_mirrored(experiment, session) ==
    trans_dir \o <<experiment, subject, session_name(session)>>

\* the session's entry under the archive root
archive_dest(experiment, session) ==
    trans_dir \o <<subject, experiment, session_name(session)>>

\* Uploader.move_eeg_to_transferred, undecorated: nothing is returned
move_eeg_to_transferred_body(w, experiment, session) ==
    shutil_move(IF ~exists(w, trans_dir) THEN makedirs(w, trans_dir) ELSE w,
                get_session_dir(experiment, session) \o <<"host_pc">>,
                archive_dest(experiment, session))

move_eeg_to_transferred(w, experiment, session) ==
    log("move_eeg_to_transferred",
        move_eeg_to_transferred_body(w, experiment, session))

(* ------------------------- the whole pipeline ------------------------- *)

\* upload_experiment_data after step 3: True
upload_step3(ev, m) ==
    IF m.exc # NoExc
    THEN Result(m.w, "None", m.exc, ev \o m.ev)
    ELSE Result(m.w, "True", NoExc, ev \o m.ev)

\* upload_experiment_data after step 2: the archive step if rsync's result
\* is true, else False
upload_step2(ev, r, experiment, session) ==
    IF r.exc # NoExc
    THEN Result(r.w, "None", r.exc, ev \o r.ev)
    ELSE IF Truthy(r.ret)
    THEN upload_step3(ev \o r.ev, move_eeg_to_transferred(r.w, experiment, session))
    ELSE Result(r.w, "False", NoExc, ev \o r.ev)

\* upload_experiment_data after step 1: its result is not looked at
upload_step1(t, experiment, session, dest, code) ==
    IF t.exc # NoExc
    THEN Raised(t)
    ELSE upload_step2(t.ev,
                      rsync(t.w, get_session_dir(experiment, session), dest, code),
                      experiment, session)

\* Uploader.upload_experiment_data, undecorated
upload_experiment_data_body(w, experiment, session, dest, env) ==
    upload_step1(transfer_host_data(w, experiment, session, env),
                 experiment, session, dest, env.rsync)

upload_experiment_data(w, experiment, session, dest, env) ==
    log("upload_experiment_data",
        upload_experiment_data_body(w, experiment, session, dest, env))

(* -------------------------- retention sweep ------------------------- *)

\* the working directory of the process, against which a bare name resolves
cwds == {trans_dir, <<"home">>}

\* os.path.getmtime applied to the arguments of the call: exactly one path
\* is required; the age in days stands for now - mtime
getmtime(args, w, ages, cwd) ==
    IF Len(args) # 1
    THEN [exc |-> "TypeError", days |-> 0]
    ELSE IF cwd = trans_dir /\ args[1] \in DOMAIN ages
    THEN [exc |-> NoExc, days |-> ages[args[1]]]
    ELSE [exc |-> "FileNotFoundError", days |-> 0]

\* shutil.rmtree
rmtree(w, p) ==
    IF ~exists(w, p)
    THEN Result(w, "None", "FileNotFoundError", <<>>)
    ELSE Result([w EXCEPT !.dirs = {d \in @ : ~IsUnder(d, p)},
                          !.files = {f \in @ : ~IsUnder(f, p)}],
                "None", NoExc, <<Ev("rmtree", "", "ok", p)>>)

\* the entry's name handed to getmtime
getmtime_args_entry(path_) == <<path_>>

\* the arguments the loop body passes to getmtime for the entry path_
getmtime_args(path_) == <<>>

\* the loop of core.remove_transferred_eeg_data over os.listdir(path), from
\* entry i of the listing on
RECURSIVE sweep_from(_, _, _, _, _, _, _)
sweep_from(w, ages, order, i, lifetime, cwd, ev) ==
    IF i > Len(order)
    THEN Result(w, "None", NoExc, ev)
    ELSE LET path_ == order[i]
             g == getmtime(getmtime_args(path_), w, ages, cwd)
         IN  IF g.exc # NoExc
             THEN Result(w, "None", g.exc, ev)
             ELSE IF g.days > lifetime
             THEN LET rec == Ev("log", "remove_transferred_eeg_data",
                                "Removing", <<path_>>)
                      d == rmtree(w, cwd \o <<path_>>)
                  IN  IF d.exc # NoExc
                      THEN Result(w, "None", d.exc, ev \o <<rec>>)
                      ELSE sweep_from(d.w, ages, order, i + 1, lifetime, cwd,
                                      ev \o <<rec>> \o d.ev)
             ELSE sweep_from(w, ages, order, i + 1, lifetime, cwd, ev)

\* core.remove_transferred_eeg_data; order is the order os.listdir gave
remove_transferred_eeg_data(w, ages, path, lifetime, order, cwd) ==
    IF ~isdir(w, path)
    THEN Result(w, "None", "FileNotFoundError", <<>>)
    ELSE sweep_from(w, ages, order, 1, lifetime, cwd, <<>>)

\* a sweep that raised nothing before the process was stopped ends there
interrupt(r) ==
    IF r.exc # NoExc THEN r ELSE Result(r.w, "None", "KeyboardInterrupt", r.ev)

\* core.remove_transferred_eeg_data when the process is interrupted after k
\* entries of the listing: the loop has run over those k entries only
interrupted_sweep(w, ages, path, lifetime, order, k, cwd) ==
    interrupt(remove_transferred_eeg_data(w, ages, path, lifetime,
                                          SubSeq(order, 1, k), cwd))

(* ------------------------------ state --------------------------------- *)

World == [dirs |-> dirs, files |-> files, synced |-> synced,
          mount_point |-> mount_point, fetched |-> fetched]

\* the same for a session already fetched: the call reads none of the host's
\* inputs
Reads(w, experiment, session, env) ==
    exists(w, get_session_dir(experiment, session) \o <<"host_pc">>)
        => (env.mount = 0 /\ env.host_exists /\ env.failed = {} /\ env.umount = 0)

NoAges == [n \in {} |-> 0]

Call(op, experiment, session, code, r) ==
    [op |-> op, experiment |-> experiment, session |-> session,
     code |-> code, ret |-> r.ret, exc |-> r.exc, before |-> NoAges]

\* the names of the top-level entries of the archive root
TopEntries(d) ==
    {basename(p) : p \in {q \in d : IsUnder(q, trans_dir)
                                    /\ Len(q) = Len(trans_dir) + 1}}

Commit(r) ==
    /\ dirs' = r.w.dirs
    /\ files' = r.w.files
    /\ synced' = r.w.synced
    /\ mount_point' = r.w.mount_point
    /\ fetched' = r.w.fetched
    /\ mtime_age' = [n \in TopEntries(r.w.dirs) |->
                        IF n \in DOMAIN mtime_age THEN mtime_age[n] ELSE 0]
    /\ trace' = r.ev
    /\ UNCHANGED selected

\* what the host PC and the external commands do during one call; an input
\* that the call cannot reach (the copy after a failed mount, the unmount
\* after a failed copy) is fixed, since every value of it gives the same run
Envs ==
    {env \in [mount : ExitCodes, host_exists : BOOLEAN,
              failed : SUBSET HostFiles, umount : ExitCodes, rsync : ExitCodes] :
        /\ env.mount # 0 => (env.host_exists /\ env.failed = {})
        /\ ~env.host_exists => env.failed = {}
        /\ (env.mount # 0 \/ ~env.host_exists \/ env.failed # {}) => env.umount = 0}

NoCall == [op |-> "none", experiment |-> "", session |-> 0, code |-> 0,
           ret |-> "None", exc |-> NoExc, before |-> NoAges]

Init ==
    /\ dirs = UNION {Prefixes(get_session_dir("FR1", s)) : s \in Sessions}
                \cup {local_dest}
    /\ files = {get_session_dir("FR1", s) \o <<"session.log">> : s \in Sessions}
    /\ synced = {}
    /\ mount_point = [exists |-> FALSE, mounted |-> FALSE]
    /\ fetched = {}
    /\ mtime_age = NoAges
    /\ selected \in Experiments \X Sessions
    /\ trace = <<>>
    /\ last = NoCall

Rsync ==
    \E dest \in Dests, code \in ExitCodes, slash \in BOOLEAN :
        LET e == selected[1]
            s == selected[2]
            d == get_session_dir(e, s)
            src == IF slash THEN d \o <<sep>> ELSE d
            r == rsync(World, src, dest, code)
        IN  /\ Commit(r)
            /\ last' = Call("rsync", e, s, code, r)

TransferHostData ==
    \E env \in Envs :
        LET e == selected[1]
            s == selected[2]
            r == transfer_host_data(World, e, s, env)
        IN  /\ env.rsync = 0    \* no sync command is run by this call
            /\ Reads(World, e, s, env)
            /\ Commit(r)
            /\ last' = Call("transfer_host_data", e, s, 0, r)

MoveEegToTransferred ==
    LET e == selected[1]
        s == selected[2]
        r == move_eeg_to_transferred(World, e, s)
    IN  /\ Commit(r)
        /\ last' = Call("move_eeg_to_transferred", e, s, 0, r)

UploadExperimentData ==
    \E dest \in Dests, env \in Envs :
        LET e == selected[1]
            s == selected[2]
            r == upload_experiment_data(World, e, s, dest, env)
        IN  /\ Reads(World, e, s, env)
            /\ Commit(r)
            /\ last' = Call("upload_experiment_data", e, s, env.rsync, r)

Next ==
    \/ Rsync
    \/ TransferHostData
    \/ MoveEegToTransferred
    \/ UploadExperimentData

Spec == Init /\ [][Next]_vars

(* ------------------- imaging and clinical EEG uploads ---------------- *)

\* directories that may hold imaging or clinical EEG data, and the sources
\* handed to the uploads: those, a path that does not exist, a plain file
ImagingDirs == {<<"imaging">>, <<"clinical_eeg">>}
ImagingSources == ImagingDirs \cup {<<"nonexistantpath">>, <<"scan.nii">>}

ImagingInit ==
    \E present \in SUBSET ImagingDirs :
        /\ dirs = present \cup {local_dest}
        /\ files = {<<"scan.nii">>}
        /\ synced = {}
        /\ mount_point = [exists |-> FALSE, mounted |-> FALSE]
        /\ fetched = {}
        /\ mtime_age = NoAges
        /\ selected = <<"FR1", 0>>
        /\ trace = <<>>
        /\ last = NoCall

UploadImaging ==
    \E src \in ImagingSources, dest \in Dests, code \in ExitCodes :
        LET r == upload_imaging(World, src, dest, code)
        IN  /\ Commit(r)
            /\ last' = Call("upload_imaging", "", 0, code, r)

UploadClinicalEeg ==
    \E src \in ImagingSources, dest \in Dests, code \in ExitCodes :
        LET r == upload_clinical_eeg(World, src, dest, code)
        IN  /\ Commit(r)
            /\ last' = Call("upload_clinical_eeg", "", 0, code, r)

ImagingNext ==
    \/ UploadImaging
    \/ UploadClinicalEeg

ImagingSpec == ImagingInit /\ [][ImagingNext]_vars

(* ----------------- the retention sweep on an archive ------------------ *)

EntryNames == OtherSubjects \cup {subject}

\* every order os.listdir can give the names of S in
Orders(S) ==
    {o \in [1..Cardinality(S) -> S] : \A i, j \in 1..Cardinality(S) :
                                          o[i] = o[j] => i = j}

\* the directories and files of an archive holding the entries present
ArchiveDirs(present) ==
    UNION {Prefixes(trans_dir \o <<n, "FR1", "session_0">>) : n \in present}
        \cup {trans_dir, <<"home">>}

ArchiveFiles(present) ==
    {trans_dir \o <<n, "FR1", "session_0", "eeg.h5">> : n \in present}

\* the record of a sweep: the ages it found and the call it came after
SweepCall(after, c) ==
    [op |-> c.op, experiment |-> c.experiment, session |-> c.session,
     code |-> c.code, ret |-> c.ret, exc |-> c.exc, before |-> mtime_age,
     after |-> after]

\* an archive of earlier uploads: each entry holds one archived session
SweepInit ==
    \E present \in SUBSET EntryNames :
        /\ dirs = ArchiveDirs(present)
        /\ files = ArchiveFiles(present)
        /\ mtime_age \in [present -> Ages]
        /\ synced = {}
        /\ mount_point = [exists |-> FALSE, mounted |-> FALSE]
        /\ fetched = {}
        /\ selected = <<"FR1", 0>>
        /\ trace = <<>>
        /\ last = SweepCall("none", NoCall)

RemoveTransferredEegData ==
    \E lifetime \in Lifetimes, order \in Orders(DOMAIN mtime_age), cwd \in cwds :
        LET r == remove_transferred_eeg_data(World, mtime_age, trans_dir,
                                             lifetime, order, cwd)
        IN  /\ Commit(r)
            /\ last' = SweepCall(last.op,
                         Call("remove_transferred_eeg_data", "", 0, lifetime, r))

\* a day passes
Tick ==
    /\ \A n \in DOMAIN mtime_age : mtime_age[n] < MaxLifetime + 1
    /\ mtime_age' = [n \in DOMAIN mtime_age |-> mtime_age[n] + 1]
    /\ UNCHANGED <<dirs, files, synced, mount_point, fetched, selected, trace,
                   last>>

\* the sweep, stopped part-way by an interruption of the process
InterruptedSweep ==
    \E lifetime \in Lifetimes, order \in Orders(DOMAIN mtime_age), cwd \in cwds :
        \E k \in 0..(Len(order) - 1) :
            LET r == interrupted_sweep(World, mtime_age, trans_dir, lifetime,
                                       order, k, cwd)
            IN  /\ Commit(r)
                /\ last' = SweepCall(last.op,
                             Call("interrupted sweep", "", 0, lifetime, r))

SweepNext ==
    \/ RemoveTransferredEegData
    \/ InterruptedSweep
    \/ Tick

SweepSpec == SweepInit /\ [][SweepNext]_vars

(* ===================================================================== *)
(* Properties                                                            *)
(* ===================================================================== *)

\* positions of the events of kind e tagged op in the trace t
At(t, e, op) == {i \in 1..Len(t) : t[i].e = e /\ t[i].op = op}

HasEv(t, e, op, arg) == \E i \in At(t, e, op) : t[i].arg = arg

SyncCommands == {"rsync_local", "rsync_remote"}

\* the sync command of the call ran and exited with this code
SyncExit(t, code) == \E c \in SyncCommands : HasEv(t, "exec", c, ToString(code))

\* the archive step was entered / the move was carried out
MoveCalled(t) == At(t, "call", "move_eeg_to_transferred") # {}
Moved(t) == HasEv(t, "move", "", "ok")

host_pc_dir == get_session_dir(selected[1], selected[2]) \o <<"host_pc">>
archive_entry == archive_dest(selected[1], selected[2])

\* the directory-encoded markers of the selected session
FetchedMarker(d) == host_pc_dir \in d
ArchivedMarker(d) == archive_entry \in d

\* the audit record of the outermost call: the last record of the trace
OuterRecord(t) ==
    LET recs == {i \in 1..Len(t) : t[i].e = "log"}
    IN  t[CHOOSE i \in recs : \A j \in recs : j <= i]

(* C1: from NOT_FETCHED or FETCHED, when the fetch succeeds and the sync  *)
(* command exits with 0, upload_experiment_data archives host_pc (the     *)
(* session is ARCHIVED) and returns true.                                 *)
C1_UploadArchivesOnSuccess ==
    [][(/\ last'.op = "upload_experiment_data"
        /\ ~ArchivedMarker(dirs)
        /\ HasEv(trace', "return", "transfer_host_data", "True")
        /\ SyncExit(trace', 0))
       => (/\ Moved(trace')
           /\ ArchivedMarker(dirs')
           /\ ~FetchedMarker(dirs')
           /\ last'.exc = NoExc
           /\ last'.ret = "True")]_vars

(* C2: in upload_experiment_data, an archive step or a true result        *)
(* implies that the sync command of that run exited with 0; after a       *)
(* failed sync there is neither.                                          *)
C2_ArchiveOnlyAfterSync ==
    last.op = "upload_experiment_data" =>
        /\ (MoveCalled(trace) \/ Moved(trace) \/ last.ret = "True")
              => SyncExit(trace, 0)
        /\ (\E c \in ExitCodes \ {0} : SyncExit(trace, c))
              => (~MoveCalled(trace) /\ ~Moved(trace) /\ last.ret # "True")

C2_Witness ==
    /\ last.op = "upload_experiment_data"
    /\ SyncExit(trace, 1)
    /\ HasEv(trace, "return", "transfer_host_data", "True")
    /\ ~MoveCalled(trace)
    /\ last.exc = "CalledProcessError"
    /\ FetchedMarker(dirs)

(* C3: once a fetch of the session has returned, a later                  *)
(* transfer_host_data call for it mounts and copies nothing and returns   *)
(* true, whatever ran in between.                                         *)
C3_SecondFetchIsNoOp ==
    [][(selected \in fetched /\ last'.op = "transfer_host_data")
       => (/\ At(trace', "exec", "mount_smbfs") = {}
           /\ At(trace', "copytree", "") = {}
           /\ last'.exc = NoExc
           /\ last'.ret = "True")]_vars

(* C4: the fetched marker (host_pc in the session directory) and the      *)
(* archived marker (the session's archive entry) are never both present.  *)
C4_MarkersExclusive == ~(FetchedMarker(dirs) /\ ArchivedMarker(dirs))

(* C5: once the mount is acquired, an unmount is attempted on every exit  *)
(* from the mount scope, normal or exceptional.                           *)
C5_UnmountAlwaysAttempted ==
    HasEv(trace, "exec", "mount_smbfs", "0") => At(trace, "exec", "umount") # {}

(* C6: move_eeg_to_transferred for a session with no prior successful     *)
(* sync fails with an error and moves nothing.                            *)
C6_ArchiveNeedsSync ==
    (/\ last.op = "move_eeg_to_transferred"
     /\ get_session_dir(selected[1], selected[2]) \notin synced)
    => (last.exc # NoExc /\ ~Moved(trace))

\* the call did its work without error
Completed ==
    CASE last.op = "rsync" -> last.exc = NoExc /\ SyncExit(trace, 0)
      [] last.op = "transfer_host_data" -> last.exc = NoExc
      [] last.op = "move_eeg_to_transferred" -> last.exc = NoExc /\ Moved(trace)
      [] last.op = "upload_experiment_data" ->
            last.exc = NoExc /\ SyncExit(trace, 0) /\ Moved(trace)
      [] OTHER -> FALSE

WrappedOps == {"rsync", "transfer_host_data", "move_eeg_to_transferred",
               "upload_experiment_data"}

(* C7: the audit record of a wrapped operation says "successfully         *)
(* completed" exactly when the operation did its work without error, and  *)
(* is a failure record exactly when it did not.                           *)
C7_RecordMatchesOutcome ==
    last.op \in WrappedOps =>
        /\ OuterRecord(trace).op = last.op
        /\ (OuterRecord(trace).arg = "successfully completed") <=> Completed

(* C8: every invocation of rsync appends exactly one audit record tagged  *)
(* rsync, whether it returns or raises, and a raise comes after the       *)
(* record.                                                                *)
C8_OneRsyncRecordPerCall ==
    /\ Cardinality(At(trace, "log", "rsync"))
          = Cardinality(At(trace, "call", "rsync"))
    /\ \A c \in At(trace, "call", "rsync") :
          \E x \in At(trace, "return", "rsync") \cup At(trace, "raise", "rsync") :
              /\ c < x
              /\ trace[x - 1].e = "log"
              /\ trace[x - 1].op = "rsync"
              /\ At(trace, "log", "rsync") = {x - 1}

C8_Witness ==
    /\ last.op = "rsync"
    /\ last.exc = "CalledProcessError"
    /\ Len(trace) = 4
    /\ trace[3] = Ev("log", "rsync", "Uncaught exception", <<>>)
    /\ trace[4] = Ev("raise", "rsync", "CalledProcessError", <<>>)

(* C9: rsync returns the boolean true when the sync command exits with 0  *)
(* and raises, never returns, when the exit code is not 0.                *)
C9_RsyncReturnsTrue ==
    last.op = "rsync" =>
        /\ SyncExit(trace, 0) => (last.exc = NoExc /\ last.ret = "True")
        /\ (\E c \in ExitCodes \ {0} : SyncExit(trace, c))
              => last.exc = "CalledProcessError"

\* the ages the retention property speaks of
SyntheticAges(lifetime) == {0, lifetime - 1, lifetime, lifetime + 1}

(* C10: on an archive whose entries are 0, lifetime-1, lifetime or        *)
(* lifetime+1 days old, remove_transferred_eeg_data ends normally, has    *)
(* removed exactly the entries older than lifetime and has left the       *)
(* others as they were.                                                   *)
C10_SweepRemovesExactlyOld ==
    (/\ last.op = "remove_transferred_eeg_data"
     /\ \A n \in DOMAIN last.before : last.before[n] \in SyntheticAges(last.code))
    => (/\ last.exc = NoExc
        /\ DOMAIN mtime_age
              = {n \in DOMAIN last.before : last.before[n] <= last.code}
        /\ \A n \in DOMAIN mtime_age :
              /\ mtime_age[n] = last.before[n]
              /\ trans_dir \o <<n, "FR1", "session_0", "eeg.h5">> \in files)

\* no day has passed since the latest sweep looked at the archive
SameDay ==
    /\ DOMAIN mtime_age \subseteq DOMAIN last.before
    /\ \A n \in DOMAIN mtime_age : mtime_age[n] = last.before[n]

\* the entries one uninterrupted sweep leaves of the archive the latest call
\* found, for a listing order and a working directory
Uninterrupted(lifetime, order, cwd) ==
    TopEntries(remove_transferred_eeg_data(
                   [World EXCEPT !.dirs = ArchiveDirs(DOMAIN last.before),
                                 !.files = ArchiveFiles(DOMAIN last.before)],
                   last.before, trans_dir, lifetime, order, cwd).w.dirs)

SourceNotDir(t) == \E i \in 1..Len(t) : t[i].e = "isdir" /\ t[i].arg = "False"

(* C12: upload_imaging and upload_clinical_eeg called with a source that  *)
(* does not exist or is not a directory raise OSError, run no external    *)
(* command and append no audit record of a success.                       *)
C12_BadSourceRaisesOSError ==
    (/\ last.op \in {"upload_imaging", "upload_clinical_eeg"}
     /\ SourceNotDir(trace))
    => (/\ last.exc = "OSError"
        /\ \A i \in 1..Len(trace) :
              /\ trace[i].e # "exec"
              /\ ~(trace[i].e = "log" /\ trace[i].arg = "successfully completed"))

C12_Witness ==
    /\ last.op = "upload_clinical_eeg"
    /\ \E i \in 1..Len(trace) :
          /\ trace[i].e = "isdir" /\ trace[i].arg = "False"
          /\ trace[i].path = <<"scan.nii">>
    /\ HasEv(trace, "log", "upload_imaging", "Uncaught exception")
    /\ HasEv(trace, "log", "upload_clinical_eeg", "Uncaught exception")

\* the error kind upload_imaging raises for a missing source
NotFoundError == "OSError"

(* C13: rsync called with a source that does not exist fails with the     *)
(* error the upload operations raise for a missing source (OSError), and  *)
(* the external command is not run.                                       *)
C13_RsyncMissingSourceNotFound ==
    (/\ last.op = "rsync"
     /\ ~exists(World, get_session_dir(last.experiment, last.session)))
    => (/\ last.exc = NotFoundError
        /\ \A i \in 1..Len(trace) : trace[i].e # "exec")

\* the latest call was an upload_experiment_data whose fetch returned true
\* and whose sync command then failed
FailedAtSync ==
    /\ last.op = "upload_experiment_data"
    /\ HasEv(trace, "return", "transfer_host_data", "True")
    /\ \E c \in ExitCodes \ {0} : SyncExit(trace, c)

(* C14: after an upload_experiment_data that failed at the sync step      *)
(* following a successful fetch, host_pc is still in the session          *)
(* directory, and an upload_experiment_data run next mounts and copies    *)
(* nothing and runs the sync command.                                     *)
C14_RetrySkipsFetch ==
    [][FailedAtSync
       => (/\ FetchedMarker(dirs)
           /\ last'.op = "upload_experiment_data"
                 => (/\ At(trace', "exec", "mount_smbfs") = {}
                     /\ At(trace', "copytree", "") = {}
                     /\ HasEv(trace', "return", "transfer_host_data", "True")
                     /\ \E c \in ExitCodes : SyncExit(trace', c)))]_vars

C14_Witness ==
    /\ FailedAtSync
    /\ HasEv(trace, "exec", "mount_smbfs", "0")
    /\ HasEv(trace, "copytree", "", "ok")
    /\ last.exc = "CalledProcessError"
    /\ host_pc_dir \o <<"eeg.h5">> \in files

\* host_pc of the selected session holds every file of the host's directory
HostPcComplete == \A f \in HostFiles : host_pc_dir \o <<f>> \in files

(* C15: a fetch that reports the session as fetched (transfer_host_data   *)
(* returns true, alone or inside upload_experiment_data) and a sync       *)
(* command run on the session directory find host_pc copied in full: a    *)
(* partly copied host_pc is never taken as already fetched.               *)
C15_FetchedImpliesComplete ==
    (/\ last.op \in {"transfer_host_data", "upload_experiment_data"}
     /\ \/ HasEv(trace, "return", "transfer_host_data", "True")
        \/ \E c \in ExitCodes : SyncExit(trace, c))
    => (HostPcComplete \/ Moved(trace))

FetchOps == {"transfer_host_data", "upload_experiment_data"}

(* C16: when the mount command fails, transfer_host_data raises its       *)
(* CalledProcessError to the caller, nothing is copied, no host_pc        *)
(* directory is made and the mount point is not left mounted.             *)
C16_MountFailureRaises ==
    (last.op \in FetchOps /\ HasEv(trace, "exec", "mount_smbfs", "1"))
    => (/\ last.exc = "CalledProcessError"
        /\ HasEv(trace, "raise", "transfer_host_data", "CalledProcessError")
        /\ At(trace, "copytree", "") = {}
        /\ ~FetchedMarker(dirs)
        /\ ~mount_point.mounted
        /\ \A c \in SyncCommands : At(trace, "exec", c) = {})

C16_Witness ==
    /\ last.op = "transfer_host_data"
    /\ HasEv(trace, "exec", "mount_smbfs", "1")
    /\ last.exc = "CalledProcessError"
    /\ selected \notin fetched

\* the copy of the latest call failed with the error x
CopyFailed(x) == x # "ok" /\ HasEv(trace, "copytree", "", x)

(* C17: a failing umount is not raised: when the copy succeeded and       *)
(* umount fails, transfer_host_data still returns true; and when the copy *)
(* failed, the exception of the call is the copy's, never one of umount.  *)
C17_UnmountFailureNotEscalated ==
    last.op \in FetchOps
    => (/\ HasEv(trace, "exec", "umount", "1")
              => (/\ HasEv(trace, "copytree", "", "ok")
                  /\ HasEv(trace, "return", "transfer_host_data", "True")
                  /\ last.op = "transfer_host_data"
                        => (last.exc = NoExc /\ last.ret = "True"))
        /\ \A x \in {"Error", "FileNotFoundError", "FileExistsError"} :
              CopyFailed(x)
                 => (/\ last.exc = x
                     /\ HasEv(trace, "raise", "transfer_host_data", x)))

C17_Witness ==
    /\ last.op = "transfer_host_data"
    /\ HasEv(trace, "exec", "umount", "1")
    /\ HasEv(trace, "copytree", "", "ok")
    /\ last.ret = "True"
    /\ mount_point.mounted
    /\ HostPcComplete

\* the selected session's path under the archive root, in the component
\* order of the data root, and with the subject first
MirroredEntry == Rebase(get_session_dir(selected[1], selected[2]), dataroot, trans_dir)
SubjectFirstEntry == trans_dir \o <<subject, selected[1], session_name(selected[2])>>

\* the place the latest call moved host_pc to
MovedTo == {trace[i].path : i \in {j \in At(trace, "move", "") : trace[j].arg = "ok"}}

(* C18 as stated: the archive entry made for a session is at               *)
(* archive_root/experiment/subject/session_<n>, the component order of    *)
(* get_session_dir.                                                       *)
C18_ArchiveMirrorsDataRoot ==
    (last.op = "move_eeg_to_transferred" /\ Moved(trace))
    => (/\ MirroredEntry \in dirs
        /\ \A p \in MovedTo : IsUnder(p, MirroredEntry))

(* C18 amended: the archive entry made for a session is at                *)
(* archive_root/subject/experiment/session_<n> (subject first), not in    *)
(* the experiment/subject order of get_session_dir.                       *)
C18_ArchiveSubjectFirst ==
    (last.op = "move_eeg_to_transferred" /\ Moved(trace))
    => (/\ SubjectFirstEntry \in dirs
        /\ MirroredEntry \notin dirs
        /\ \A p \in MovedTo : IsUnder(p, SubjectFirstEntry)
        /\ \A f \in files : IsUnder(f, trans_dir) => IsUnder(f, SubjectFirstEntry))

C18_Witness ==
    /\ last.op = "move_eeg_to_transferred"
    /\ MovedTo = {SubjectFirstEntry}
    /\ SubjectFirstEntry \o <<"eeg.h5">> \in files
    /\ get_session_dir(selected[1], selected[2]) \in dirs

\* the source arguments of the sync commands the latest call ran
SyncSources ==
    {trace[i].path : i \in {j \in 1..Len(trace) :
                              trace[j].e = "exec" /\ trace[j].op \in SyncCommands}}

\* p ends with one separator and no more
EndsWithOneSep(p) ==
    endswith_sep(p) /\ ~endswith_sep(SubSeq(p, 1, Len(p) - 1))

(* C19: the source argument of every sync command ends with exactly one   *)
(* separator; in upload_experiment_data, whose source is the session      *)
(* directory without a trailing separator, it is that path plus one       *)
(* separator.                                                             *)
C19_SourceEndsWithOneSeparator ==
    /\ \A p \in SyncSources : EndsWithOneSep(p)
    /\ last.op = "upload_experiment_data"
          => \A p \in SyncSources :
                p = get_session_dir(last.experiment, last.session) \o <<sep>>

C19_Witness ==
    /\ last.op = "upload_experiment_data"
    /\ ~endswith_sep(get_session_dir(last.experiment, last.session))
    /\ SyncSources = {get_session_dir(last.experiment, last.session) \o <<sep>>}

\* the event i of the trace is a step that failed
Failure(t, i) ==
    \/ t[i].e = "raise"
    \/ t[i].e = "exec" /\ t[i].op # "umount" /\ t[i].arg # "0"
    \/ t[i].e \in {"copytree", "move"} /\ t[i].arg # "ok"

\* the event i of the trace begins or carries out a step
StepEvent(t, i) ==
    t[i].e \in {"call", "exec", "mkdtemp", "copytree", "rmdir", "move", "return"}

(* C20: within one upload_experiment_data run, an unmount was attempted   *)
(* between a successful mount and the sync command, rsync has returned    *)
(* before the archive move is called, and after a step failed no further  *)
(* step begins: only audit records and the propagating raise follow.      *)
C20_StepsInOrder ==
    last.op = "upload_experiment_data"
    => (/\ \A i \in At(trace, "exec", "mount_smbfs"), j \in 1..Len(trace) :
              (trace[i].arg = "0" /\ i < j /\ trace[j].e = "exec"
                 /\ trace[j].op \in SyncCommands)
              => \E k \in At(trace, "exec", "umount") : i < k /\ k < j
        /\ \A m \in At(trace, "call", "move_eeg_to_transferred") :
              \E k \in At(trace, "return", "rsync") : k < m
        /\ \A i, j \in 1..Len(trace) :
              (Failure(trace, i) /\ i < j) => ~StepEvent(trace, j))

C20_Witness ==
    /\ last.op = "upload_experiment_data"
    /\ \E i \in At(trace, "exec", "mount_smbfs"), k \in At(trace, "exec", "umount"),
          j \in At(trace, "return", "rsync") :
          /\ trace[i].arg = "0"
          /\ i < k /\ k < j
    /\ HasEv(trace, "copytree", "", "ok")

(* C21: when a transfer_host_data call (alone or inside                   *)
(* upload_experiment_data) that made a temporary mount-point directory    *)
(* has finished, that directory is gone, whether the call returned, the   *)
(* mount failed, the copy failed or the unmount failed.                   *)
C21_TempDirRemoved ==
    (last.op \in FetchOps /\ At(trace, "mkdtemp", "") # {})
    => ~mount_point.exists

(* C22: after a successful move_eeg_to_transferred the host files sit     *)
(* directly at the session's archive path, whether or not the entry was   *)
(* there before: the data is never put one level deeper, as a host_pc     *)
(* directory inside the entry.                                            *)
C22_ArchiveNeverNests ==
    (last.op = "move_eeg_to_transferred" /\ Moved(trace))
    => (/\ MovedTo = {archive_entry}
        /\ archive_entry \o <<"host_pc">> \notin dirs)
====
